---- MODULE Spec2Model ----
(***************************************************************************)
(* Model of src/js/store.js: the Store (a JSON document kept under one     *)
(* localStorage key, with a task mapping and a category index) and the     *)
(* operations find, findAll, findCategoriesAll, findCategories, save,      *)
(* remove and drop.  Every operation is synchronous: it parses the stored  *)
(* document, works on the parsed copy, possibly writes it back and         *)
(* possibly calls its callback.  The Template of the same file builds the  *)
(* HTML of a task list (show) and of the counter (itemCounter); both are   *)
(* functions of their arguments alone.                                     *)
(***************************************************************************)
EXTENDS Integers, Sequences, FiniteSets, TLC

VARIABLES storage, now, last, roundTrip, rendered

vars == <<storage, now, last, roundTrip, rendered>>

---------------------------------------------------------------------------
(* Bounds *)

\* Largest value Date.getTime() returns in the model (ids are 1..MaxClock).
MaxClock == 2

\* Largest total number of ids kept in the category lists.
MaxEntries == 2

\* Largest number of characters the titles and categories of a task list
\* passed to show have together.
MaxLen == 2

\* Largest number of tasks in a list passed to show.
MaxTasks == 1

\* Largest count passed to itemCounter.
MaxCount == 3

---------------------------------------------------------------------------
(* The record of a call *)

\* What a call leaves behind for an observer: the operation, its
\* arguments, the stored document before it, and its outcome.
Call(op, id, data, hasCallback, pre, result) ==
    [op |-> op, id |-> id, data |-> data, hasCallback |-> hasCallback,
     pre |-> pre, threw |-> result.threw, called |-> result.called,
     arg |-> result.arg, calls |-> result.calls, seen |-> result.seen]

---------------------------------------------------------------------------
(* Values *)

\* The id argument of save when the caller leaves it out (undefined).
NoId == -1

\* localStorage.getItem(name) when nothing was stored under name (null).
NoItem == [null |-> TRUE]

\* JavaScript's undefined as an element of a yielded list.
Undefined == [undefined |-> TRUE]

\* Placeholder for "the callback received nothing".
NoArg == [none |-> TRUE]

\* An object without properties, {}.
EmptyObject == <<>>

\* Task data a caller passes to save without an id.
NewData ==
    { [title |-> "A", category |-> "home", completed |-> FALSE],
      [title |-> "A", category |-> "work", completed |-> FALSE] }

\* Update data a caller passes to save with an id.
UpdateData ==
    { [completed |-> TRUE],
      [category |-> "work"],
      [id |-> 1, completed |-> TRUE] }

\* Queries passed to find and findCategories.
Queries ==
    { EmptyObject, [completed |-> TRUE],
      [category |-> "home", completed |-> TRUE] }

\* Values of the id argument: left out, 0, or a possible timestamp.
IdArgs == {NoId} \cup (0 .. MaxClock)

---------------------------------------------------------------------------
(* Helpers on objects (functions with a finite domain of keys) *)

\* obj[key] = value
Put(obj, key, value) ==
    [k \in DOMAIN obj \cup {key} |-> IF k = key THEN value ELSE obj[k]]

\* delete obj[key]
Delete(obj, key) == [k \in DOMAIN obj \ {key} |-> obj[k]]

\* The keys of the tasks mapping of a document ({} when it has none).
TaskKeys(todos) ==
    IF "tasks" \in DOMAIN todos THEN DOMAIN todos.tasks ELSE {}

\* The property key that task.category names: a missing category is
\* undefined, which as a property key is the string "undefined".
CategoryKey(task) ==
    IF "category" \in DOMAIN task THEN task.category ELSE "undefined"

\* Total number of ids in the category lists of a document.
RECURSIVE SumLen(_, _)
SumLen(categories, keys) ==
    IF keys = {} THEN 0
    ELSE LET k == CHOOSE x \in keys : TRUE
         IN Len(categories[k]) + SumLen(categories, keys \ {k})

Entries(todos) ==
    IF "categories" \in DOMAIN todos
    THEN SumLen(todos.categories, DOMAIN todos.categories)
    ELSE 0

\* Object.values(tasks): integer keys are enumerated in ascending order.
RECURSIVE Values(_, _)
Values(tasks, keys) ==
    IF keys = {} THEN <<>>
    ELSE LET m == CHOOSE x \in keys : \A y \in keys : x <= y
         IN <<tasks[m]>> \o Values(tasks, keys \ {m})

\* The filter of find: query[q] !== todo[q] for no key q of query.
Matches(todo, query) ==
    \A q \in DOMAIN query : q \in DOMAIN todo /\ todo[q] = query[q]

\* if (id): the id argument is neither left out nor 0.
Truthy(id) == id # NoId /\ id # 0

Range(seq) == { seq[i] : i \in 1 .. Len(seq) }

---------------------------------------------------------------------------
(* The operations, as functions of the parsed document and the arguments. *)
(* Each yields the document left in localStorage, whether the call threw, *)
(* whether the caller's callback was invoked, and with what.              *)

\* Placeholder for "no callback ran, so nothing was read from inside it".
NotSeen == [none |-> TRUE]

\* The outcome of a call: doc is the document left in localStorage, calls
\* the number of invocations of the caller's callback, arg what it was
\* given, and seen the document localStorage held while it ran.
Outcome(doc, threw, calls, arg, seen) ==
    [doc |-> doc, threw |-> threw, called |-> calls > 0, arg |-> arg,
     calls |-> calls, seen |-> seen]

\* The outcome of a path that writes nothing after parsing or that does not
\* reach the callback: a callback that runs sees the document left behind.
Result(doc, threw, called, arg) ==
    Outcome(doc, threw, IF called THEN 1 ELSE 0, arg,
            IF called THEN doc ELSE NotSeen)

\* What the Store constructor and a correct drop write.
EmptyDocument == [tasks |-> EmptyObject, categories |-> EmptyObject]

\* Construct gone wrong: the test for an existing item is missing, so every
\* construction writes the empty document.
ConstructResetting(item, hasCallback) ==
    Result(EmptyDocument, FALSE, hasCallback,
           IF hasCallback THEN EmptyDocument ELSE NoArg)

\* new Store(name, callback)
Construct(item, hasCallback) ==
    LET doc == IF item = NoItem THEN EmptyDocument ELSE item
    IN Result(doc, FALSE, hasCallback, IF hasCallback THEN doc ELSE NoArg)

\* find(query, callback)
find(todos, query, hasCallback) ==
    IF ~hasCallback THEN Result(todos, FALSE, FALSE, NoArg)
    ELSE IF "tasks" \notin DOMAIN todos
    THEN Result(todos, TRUE, FALSE, NoArg)
    ELSE LET Test(todo) == Matches(todo, query)
         IN Result(todos, FALSE, TRUE,
                   SelectSeq(Values(todos.tasks, DOMAIN todos.tasks), Test))

\* findAll(callback)
findAll(todos, hasCallback) ==
    IF "tasks" \notin DOMAIN todos
    THEN Result(todos, TRUE, FALSE, NoArg)
    ELSE Result(todos, FALSE, hasCallback,
                IF hasCallback
                THEN Values(todos.tasks, DOMAIN todos.tasks)
                ELSE NoArg)


\* findCategoriesAll gone wrong: the lists are written back to localStorage
\* without the ids that have no task.
findCategoriesAllStoring(todos, hasCallback) ==
    LET categorizedTodos == todos.categories
        Known(id) == id \in TaskKeys(todos)
        Lookup(id) == todos.tasks[id]
        kept == [key \in DOMAIN categorizedTodos |->
                   SelectSeq(categorizedTodos[key], Known)]
        mapped == [key \in DOMAIN categorizedTodos |->
                     [i \in 1 .. Len(kept[key]) |-> Lookup(kept[key][i])]]
        doc == [todos EXCEPT !.categories = kept]
    IN Result(doc, FALSE, hasCallback, IF hasCallback THEN mapped ELSE NoArg)

\* findCategoriesAll(callback): every id of every list is replaced by
\* todos.tasks[id], which is undefined for an id that is not a key.
findCategoriesAll(todos, hasCallback) ==
    LET categorizedTodos == todos.categories
        NonEmpty == \E key \in DOMAIN categorizedTodos :
                        Len(categorizedTodos[key]) > 0
        Lookup(id) == IF id \in DOMAIN todos.tasks
                      THEN todos.tasks[id] ELSE Undefined
        mapped == [key \in DOMAIN categorizedTodos |->
                     [i \in 1 .. Len(categorizedTodos[key]) |->
                        Lookup(categorizedTodos[key][i])]]
    IN IF "tasks" \notin DOMAIN todos /\ NonEmpty
       THEN Result(todos, TRUE, FALSE, NoArg)
       ELSE Result(todos, FALSE, hasCallback,
                   IF hasCallback THEN mapped ELSE NoArg)

\* findCategories(query, callback): the arrow function of map has a block
\* body without return, so every id is replaced by undefined; the filter
\* then reads todo[q] of undefined for the first key q of query, a TypeError.
findCategories(todos, query, hasCallback) ==
    LET categorizedTodos == todos.categories
        NonEmpty == \E key \in DOMAIN categorizedTodos :
                        Len(categorizedTodos[key]) > 0
        mapped == [key \in DOMAIN categorizedTodos |->
                     [i \in 1 .. Len(categorizedTodos[key]) |-> Undefined]]
    IN IF ~hasCallback THEN Result(todos, FALSE, FALSE, NoArg)
       ELSE IF NonEmpty /\ ("tasks" \notin DOMAIN todos \/ DOMAIN query # {})
       THEN Result(todos, TRUE, FALSE, NoArg)
       ELSE Result(todos, FALSE, TRUE, mapped)

\* Assign gone wrong: the task is replaced by the update data.
AssignReplacing(task, updateData) == updateData

\* for (let key in updateData) task[key] = updateData[key];
Assign(task, updateData) ==
    [key \in DOMAIN task \cup DOMAIN updateData |->
        IF key \in DOMAIN updateData THEN updateData[key] ELSE task[key]]

\* todos.categories[category].push(id), the list created when absent.
Push(categories, category, id) ==
    IF category \in DOMAIN categories
    THEN Put(categories, category, Append(categories[category], id))
    ELSE Put(categories, category, <<id>>)

\* SaveExisting gone wrong: an unknown id creates the task (an upsert)
\* and the callback is invoked.
SaveExistingOrInsert(todos, updateData, hasCallback, id) ==
    LET old == IF id \in DOMAIN todos.tasks
               THEN todos.tasks[id] ELSE EmptyObject
        task == Assign(old, updateData)
        doc == [todos EXCEPT !.tasks = Put(todos.tasks, id, task)]
    IN Result(doc, FALSE, hasCallback, IF hasCallback THEN doc ELSE NoArg)

\* SaveExisting gone wrong: a category in the update data also adds the id
\* to the list of that category.
SaveExistingIndexing(todos, updateData, hasCallback, id) ==
    IF id \notin DOMAIN todos.tasks
    THEN Result(todos, FALSE, FALSE, NoArg)
    ELSE LET task == Assign(todos.tasks[id], updateData)
             doc == [todos EXCEPT
                       !.tasks = Put(todos.tasks, id, task),
                       !.categories =
                           IF "category" \in DOMAIN updateData
                           THEN Push(todos.categories, updateData.category, id)
                           ELSE todos.categories]
         IN Result(doc, FALSE, hasCallback,
                   IF hasCallback THEN doc ELSE NoArg)

\* The branch of save for a given id: the task is updated in place, the
\* document is written (line 154) and then the callback runs (line 155).
SaveExisting(todos, updateData, hasCallback, id) ==
    IF id \notin DOMAIN todos.tasks
    THEN Result(todos, FALSE, FALSE, NoArg)
    ELSE LET task == Assign(todos.tasks[id], updateData)
             doc == [todos EXCEPT !.tasks = Put(todos.tasks, id, task)]
         IN IF hasCallback
            THEN Outcome(doc, FALSE, 1, doc, doc)
            ELSE Outcome(doc, FALSE, 0, NoArg, NotSeen)

\* SaveNew gone wrong: the id given to the task is not the key it is stored
\* under.
SaveNewOtherId(todos, updateData, hasCallback, time) ==
    LET task == Put(updateData, "id", time + 1)
        doc == [todos EXCEPT
                  !.tasks = Put(todos.tasks, time, Put(updateData, "id", time + 1)),
                  !.categories =
                      Push(todos.categories, CategoryKey(task), time)]
    IN IF hasCallback
       THEN Outcome(doc, FALSE, 1, <<task>>, doc)
       ELSE Outcome(doc, FALSE, 0, NoArg, NotSeen)

\* SaveNew gone wrong: the callback runs before the document is written.
SaveNewCallbackFirst(todos, updateData, hasCallback, time) ==
    LET task == Put(updateData, "id", time)
        doc == [todos EXCEPT
                  !.tasks = Put(todos.tasks, time, task),
                  !.categories =
                      Push(todos.categories, CategoryKey(task), time)]
    IN IF hasCallback
       THEN Outcome(doc, FALSE, 1, <<task>>, todos)
       ELSE Outcome(doc, FALSE, 0, NoArg, NotSeen)

\* The branch of save without id: the task gets the time as its id, the
\* document is written (line 170) and then the callback runs (line 171).
SaveNew(todos, updateData, hasCallback, time) ==
    LET task == Put(updateData, "id", time)
        doc == [todos EXCEPT
                  !.tasks = Put(todos.tasks, time, task),
                  !.categories =
                      Push(todos.categories, CategoryKey(task), time)]
    IN IF hasCallback
       THEN Outcome(doc, FALSE, 1, <<task>>, doc)
       ELSE Outcome(doc, FALSE, 0, NoArg, NotSeen)

\* save(updateData, callback, id); time is what Date.getTime() returns.
\* A document without tasks makes todos.tasks[...] a TypeError.
save(todos, updateData, hasCallback, id, time) ==
    IF "tasks" \notin DOMAIN todos
    THEN Result(todos, TRUE, FALSE, NoArg)
    ELSE IF Truthy(id)
    THEN SaveExisting(todos, updateData, hasCallback, id)
    ELSE SaveNew(todos, updateData, hasCallback, time)

\* The index of the first element of list equal to id, 0 when there is none.
IndexOf(list, id) ==
    IF \E i \in 1 .. Len(list) : list[i] = id
    THEN CHOOSE i \in 1 .. Len(list) :
            list[i] = id /\ \A j \in 1 .. i - 1 : list[j] # id
    ELSE 0

\* list.splice(i, 1)
Splice(list, i) == SubSeq(list, 1, i - 1) \o SubSeq(list, i + 1, Len(list))

\* The loop of remove over the list of the task's category.
RemoveFromIndex(todos, id, category) ==
    LET list == todos.categories[category]
        i == IndexOf(list, id)
        rest == Splice(list, i)
    IN IF i = 0 THEN todos
       ELSE [todos EXCEPT
               !.tasks = Delete(todos.tasks, id),
               !.categories =
                   IF Len(rest) = 0
                   THEN Delete(todos.categories, category)
                   ELSE Put(todos.categories, category, rest)]

\* remove past its guard: a category that is no key of categories makes
\* .length a TypeError before anything is written; a missing callback
\* makes callback.call a TypeError after the document was written.
RemoveTask(todos, id, hasCallback) ==
    LET category == CategoryKey(todos.tasks[id])
    IN IF category \notin DOMAIN todos.categories
       THEN Result(todos, TRUE, FALSE, NoArg)
       ELSE LET doc == RemoveFromIndex(todos, id, category)
            IN IF hasCallback
               THEN Outcome(doc, FALSE, 1, doc, doc)
               ELSE Outcome(doc, TRUE, 0, NoArg, NotSeen)

\* remove gone wrong: the guard for an unknown id is missing its return,
\* so the document is written back and the callback invoked.
removeWithoutGuard(todos, id, hasCallback) ==
    IF "tasks" \notin DOMAIN todos
    THEN Result(todos, TRUE, FALSE, NoArg)
    ELSE IF id \notin DOMAIN todos.tasks
    THEN IF hasCallback
         THEN Result(todos, FALSE, TRUE, todos)
         ELSE Result(todos, TRUE, FALSE, NoArg)
    ELSE RemoveTask(todos, id, hasCallback)

\* remove(id, callback)
remove(todos, id, hasCallback) ==
    IF "tasks" \notin DOMAIN todos
    THEN Result(todos, TRUE, FALSE, NoArg)
    ELSE IF id \notin DOMAIN todos.tasks
    THEN Result(todos, FALSE, FALSE, NoArg)
    ELSE RemoveTask(todos, id, hasCallback)

\* drop(callback)
drop(hasCallback) ==
    LET todos == [list |-> <<>>, categories |-> EmptyObject]
    IN IF hasCallback
       THEN Outcome(todos, FALSE, 1, todos, todos)
       ELSE Outcome(todos, TRUE, 0, NoArg, NotSeen)

---------------------------------------------------------------------------
(* The Template.  A text is a sequence of pieces: each of the characters   *)
(* & < > " ' and the grave accent, and the dollar sign, is a piece of its  *)
(* own, a placeholder such as {{title}} is one piece, and a run of other   *)
(* characters is one piece.  String.prototype.replace with a string        *)
(* pattern replaces the first occurrence of the pattern, and reads the     *)
(* patterns $$, $&, $` and $' in its replacement.                          *)

\* The grave accent, which a string of this module cannot hold.
Grave == "[grave]"

\* The text of several texts in a row.
RECURSIVE Join(_)
Join(texts) ==
    IF texts = <<>> THEN <<>> ELSE Head(texts) \o Join(Tail(texts))

htmlEscapes ==
    ("&" :> <<"&", "amp;">>) @@ ("<" :> <<"&", "lt;">>) @@
    (">" :> <<"&", "gt;">>) @@ ("\"" :> <<"&", "quot;">>) @@
    ("'" :> <<"&", "#x27;">>) @@ (Grave :> <<"&", "#x60;">>)

escapeHtmlChar(chr) == htmlEscapes[chr]

\* reUnescapedHtml gone wrong: the class lacks the less-than sign.
reUnescapedHtmlWithoutLt == {"&", ">", "\"", "'", Grave}

\* The characters the regular expression /[&<>"'`]/g matches.
reUnescapedHtml == {"&", "<", ">", "\"", "'", Grave}

escape(string) ==
    IF string # <<>> /\ \E i \in DOMAIN string : string[i] \in reUnescapedHtml
    THEN Join([i \in DOMAIN string |->
                 IF string[i] \in reUnescapedHtml
                 THEN escapeHtmlChar(string[i])
                 ELSE <<string[i]>>])
    ELSE string

\* Piece i of a replacement begins one of the patterns $$, $&, $` and $'.
IsPattern(replacement, i) ==
    /\ replacement[i] = "$" /\ i < Len(replacement)
    /\ replacement[i + 1] \in {"$", "&", Grave, "'"}

\* The text a replacement stands for, from its piece i on: $$ is a dollar
\* sign, $& the matched text, $` the text before the match and $' the text
\* after it; any other piece stands for itself.
RECURSIVE GetSubstitution(_, _, _, _, _)
GetSubstitution(matched, before, after, replacement, i) ==
    IF \A k \in i .. Len(replacement) : ~IsPattern(replacement, k)
    THEN SubSeq(replacement, i, Len(replacement))
    ELSE LET at == CHOOSE k \in i .. Len(replacement) :
                      /\ IsPattern(replacement, k)
                      /\ \A j \in i .. (k - 1) : ~IsPattern(replacement, j)
         IN SubSeq(replacement, i, at - 1)
            \o (CASE replacement[at + 1] = "$" -> <<"$">>
                   [] replacement[at + 1] = "&" -> matched
                   [] replacement[at + 1] = Grave -> before
                   [] replacement[at + 1] = "'" -> after)
            \o GetSubstitution(matched, before, after, replacement, at + 2)

\* string.replace(pattern, replacement) for a placeholder pattern.
Replace(string, pattern, replacement) ==
    IF \A i \in DOMAIN string : string[i] # pattern THEN string
    ELSE LET at == CHOOSE i \in DOMAIN string :
                      /\ string[i] = pattern
                      /\ \A j \in 1 .. (i - 1) : string[j] # pattern
             before == SubSeq(string, 1, at - 1)
             after == SubSeq(string, at + 1, Len(string))
         IN before
            \o GetSubstitution(<<pattern>>, before, after, replacement, 1)
            \o after

templateWrapper ==
    <<"<", "ul class=", "\"", "{{wrapperClass}}", "\"", ">",
      "{{items}}", "<", "/ul", ">">>

defaultTemplate ==
    <<"<", "li data-id=", "\"", "{{id}}", "\"", " class=", "\"",
      "{{completed}}", "\"", ">",
      "<", "div class=", "\"", "view", "\"", ">",
      "<", "input class=", "\"", "toggle", "\"", " type=", "\"",
      "checkbox", "\"", " ", "{{checked}}", ">",
      "<", "label class=", "\"", "title-label", "\"", ">", "{{title}}",
      "<", "/label", ">",
      "<", "label class=", "\"", "category-label", "\"", ">",
      "{{category}}", "<", "/label", ">",
      "<", "button class=", "\"", "destroy", "\"", ">", "<", "/button",
      ">",
      "<", "/div", ">",
      "<", "/li", ">">>

\* One pass of the loop of show: the template filled in for one task.
ShowItem(task, showCategory) ==
    LET completed == IF task.completed THEN <<"completed">> ELSE <<>>
        checked == IF task.completed THEN <<"checked">> ELSE <<>>
        t1 == Replace(defaultTemplate, "{{id}}", <<ToString(task.id)>>)
        t2 == Replace(t1, "{{title}}", escape(task.title))
        t3 == Replace(t2, "{{category}}",
                      IF showCategory THEN escape(task.category) ELSE <<>>)
        t4 == Replace(t3, "{{completed}}", completed)
    IN Replace(t4, "{{checked}}", checked)

show(data, showCategory) ==
    LET view == Join([i \in DOMAIN data |-> ShowItem(data[i], showCategory)])
    IN Replace(Replace(templateWrapper, "{{items}}", view),
               "{{wrapperClass}}", <<"todo-list">>)

\* itemCounter gone wrong: one item and no item both go without the s.
itemCounterUpToOne(activeTodos) ==
    LET plural == IF activeTodos <= 1 THEN "" ELSE "s"
    IN "<strong>" \o ToString(activeTodos) \o "</strong> item" \o plural
       \o " left"

itemCounter(activeTodos) ==
    LET plural == IF activeTodos = 1 THEN "" ELSE "s"
    IN "<strong>" \o ToString(activeTodos) \o "</strong> item" \o plural
       \o " left"

---------------------------------------------------------------------------
(* State *)

\* No save of a new task directly followed by the removal of its id.
NoRoundTrip == [none |-> TRUE]

\* The document before save(t) when the last two calls were save(t) without
\* id, which assigned the id, and remove of that id.
RoundTrip(id) ==
    IF /\ last.op = "save" /\ ~Truthy(last.id) /\ ~last.threw
       /\ id = now
    THEN [base |-> last.pre, id |-> id]
    ELSE NoRoundTrip

\* No Template function was called.
NoRender == [op |-> "none", done |-> TRUE]

Init ==
    /\ storage = NoItem
    /\ now = 1
    /\ last = Call("none", NoId, EmptyObject, FALSE, NoItem,
                   Result(NoItem, FALSE, FALSE, NoArg))
    /\ roundTrip = NoRoundTrip
    /\ rendered = NoRender

\* A Store object exists once the constructor ran, which leaves an item.
Constructed == storage # NoItem

Store ==
    \E hasCallback \in BOOLEAN :
       LET r == Construct(storage, hasCallback)
       IN /\ storage' = r.doc
          /\ last' = Call("Store", NoId, EmptyObject, hasCallback, storage, r)
          /\ roundTrip' = NoRoundTrip
          /\ UNCHANGED <<now, rendered>>

Find ==
    /\ Constructed
    /\ \E query \in Queries, hasCallback \in BOOLEAN :
          LET r == find(storage, query, hasCallback)
          IN /\ storage' = r.doc
             /\ last' = Call("find", NoId, query, hasCallback, storage, r)
    /\ roundTrip' = NoRoundTrip
    /\ UNCHANGED <<now, rendered>>

FindAll ==
    /\ Constructed
    /\ \E hasCallback \in BOOLEAN :
          LET r == findAll(storage, hasCallback)
          IN /\ storage' = r.doc
             /\ last' = Call("findAll", NoId, EmptyObject, hasCallback,
                             storage, r)
    /\ roundTrip' = NoRoundTrip
    /\ UNCHANGED <<now, rendered>>

FindCategoriesAll ==
    /\ Constructed
    /\ \E hasCallback \in BOOLEAN :
          LET r == findCategoriesAll(storage, hasCallback)
          IN /\ storage' = r.doc
             /\ last' = Call("findCategoriesAll", NoId, EmptyObject,
                             hasCallback, storage, r)
    /\ roundTrip' = NoRoundTrip
    /\ UNCHANGED <<now, rendered>>

FindCategories ==
    /\ Constructed
    /\ \E query \in Queries, hasCallback \in BOOLEAN :
          LET r == findCategories(storage, query, hasCallback)
          IN /\ storage' = r.doc
             /\ last' = Call("findCategories", NoId, query, hasCallback,
                             storage, r)
    /\ roundTrip' = NoRoundTrip
    /\ UNCHANGED <<now, rendered>>

\* Date.getTime() does not go back, and may return the same millisecond
\* twice.
Save ==
    /\ Constructed
    /\ \E id \in IdArgs, hasCallback \in BOOLEAN :
          \E updateData \in IF Truthy(id) THEN UpdateData ELSE NewData,
             time \in IF Truthy(id) THEN {now} ELSE now .. MaxClock :
             LET r == save(storage, updateData, hasCallback, id, time)
             IN /\ Truthy(id) \/ Entries(storage) < MaxEntries
                /\ storage' = r.doc
                /\ now' = time
                /\ last' = Call("save", id, updateData, hasCallback,
                                storage, r)
    /\ roundTrip' = NoRoundTrip
    /\ UNCHANGED rendered

Remove ==
    /\ Constructed
    /\ \E id \in 0 .. MaxClock, hasCallback \in BOOLEAN :
          LET r == remove(storage, id, hasCallback)
          IN /\ storage' = r.doc
             /\ last' = Call("remove", id, EmptyObject, hasCallback,
                             storage, r)
             /\ roundTrip' = RoundTrip(id)
    /\ UNCHANGED <<now, rendered>>

Drop ==
    /\ Constructed
    /\ \E hasCallback \in BOOLEAN :
          LET r == drop(hasCallback)
          IN /\ storage' = r.doc
             /\ last' = Call("drop", NoId, EmptyObject, hasCallback,
                             storage, r)
    /\ roundTrip' = NoRoundTrip
    /\ UNCHANGED <<now, rendered>>

Next ==
    \/ Store
    \/ Find
    \/ FindAll
    \/ FindCategoriesAll
    \/ FindCategories
    \/ Save
    \/ Remove
    \/ Drop

Spec == Init /\ [][Next]_vars

---------------------------------------------------------------------------
(* The Template functions, applied once to each of their arguments *)

\* The characters of titles and categories.
Alphabet == {"&", "<", ">", "\"", "'", Grave, "$", "a"}

\* The number of characters before text j of a cut.
RECURSIVE Before(_, _)
Before(cut, j) == IF j = 1 THEN 0 ELSE Before(cut, j - 1) + cut[j - 1]

\* The ways to cut total characters into the title and the category of
\* each of n tasks: the lengths of the 2 * n texts, in order.
Cuts(n, total) ==
    { cut \in [1 .. 2 * n -> 0 .. total] : Before(cut, 2 * n + 1) = total }

\* Text j of the characters cut so.
Cut(chars, cut, j) ==
    SubSeq(chars, Before(cut, j) + 1, Before(cut, j) + cut[j])

\* The task list, from task i on, whose titles and categories are the
\* characters cut so; the tasks have the ids 1, 2, ...
RECURSIVE TaskList(_, _, _, _)
TaskList(chars, cut, completed, i) ==
    IF i > Len(completed) THEN <<>>
    ELSE <<[id |-> i, title |-> Cut(chars, cut, 2 * i - 1),
            category |-> Cut(chars, cut, 2 * i),
            completed |-> completed[i]]>>
         \o TaskList(chars, cut, completed, i + 1)

RenderInit ==
    /\ storage = NoItem
    /\ now = 1
    /\ last = Call("none", NoId, EmptyObject, FALSE, NoItem,
                   Result(NoItem, FALSE, FALSE, NoArg))
    /\ roundTrip = NoRoundTrip
    /\ \/ \E n \in 0 .. MaxTasks, total \in 0 .. MaxLen,
             showCategory \in BOOLEAN :
             \E chars \in [1 .. total -> Alphabet], cut \in Cuts(n, total),
                completed \in [1 .. n -> BOOLEAN] :
                rendered = [op |-> "show", done |-> FALSE,
                            data |-> TaskList(chars, cut, completed, 1),
                            showCategory |-> showCategory]
       \/ \E activeTodos \in 0 .. MaxCount :
             rendered = [op |-> "itemCounter", done |-> FALSE,
                         activeTodos |-> activeTodos]

Show ==
    /\ rendered.op = "show" /\ ~rendered.done
    /\ rendered' = [rendered EXCEPT !.done = TRUE] @@
                   [html |-> show(rendered.data, rendered.showCategory)]
    /\ UNCHANGED <<storage, now, last, roundTrip>>

ItemCounter ==
    /\ rendered.op = "itemCounter" /\ ~rendered.done
    /\ rendered' = [rendered EXCEPT !.done = TRUE] @@
                   [html |-> itemCounter(rendered.activeTodos)]
    /\ UNCHANGED <<storage, now, last, roundTrip>>

RenderNext ==
    \/ Show
    \/ ItemCounter

RenderSpec == RenderInit /\ [][RenderNext]_vars

---------------------------------------------------------------------------
(* Claims *)

HasTasks(todos) == "tasks" \in DOMAIN todos

\* The last call was save without an id (left out, or 0).
SavedNew == last.op = "save" /\ ~Truthy(last.id)

\* The last call was save with an id that if (id) accepts.
SavedWithId == last.op = "save" /\ Truthy(last.id)

\* C1: in the stored document every id of every category list is a key of
\* tasks, and every task's category is a key of categories whose list
\* contains the task's id.
C1_IndexConsistent ==
    Constructed =>
        /\ \A c \in DOMAIN storage.categories :
              Range(storage.categories[c]) \subseteq TaskKeys(storage)
        /\ \A id \in TaskKeys(storage) :
              LET c == CategoryKey(storage.tasks[id])
              IN /\ c \in DOMAIN storage.categories
                 /\ id \in Range(storage.categories[c])

\* C2: save without an id adds exactly one task: tasks has one key more,
\* every task that was there is unchanged, and the list of the category of
\* the data contains the id assigned (the current time).
C2_SaveNewAddsOne ==
    SavedNew =>
        /\ HasTasks(storage)
        /\ Cardinality(TaskKeys(storage)) =
              Cardinality(TaskKeys(last.pre)) + 1
        /\ \A id \in TaskKeys(last.pre) :
              /\ id \in TaskKeys(storage)
              /\ storage.tasks[id] = last.pre.tasks[id]
        /\ CategoryKey(last.data) \in DOMAIN storage.categories
        /\ now \in Range(storage.categories[CategoryKey(last.data)])

\* C3: remove of an id that is a key of tasks leaves a document where id
\* is no key of tasks and does not occur in the list of the task's
\* category; that category is absent when its list became empty and is
\* kept with the remaining ids otherwise.
C3_RemoveKnown ==
    (last.op = "remove" /\ last.id \in TaskKeys(last.pre)) =>
        LET c == CategoryKey(last.pre.tasks[last.id])
            before == IF c \in DOMAIN last.pre.categories
                      THEN last.pre.categories[c] ELSE <<>>
            IsNot(x) == x # last.id
            rest == SelectSeq(before, IsNot)
        IN /\ last.id \notin TaskKeys(storage)
           /\ IF rest = <<>>
              THEN c \notin DOMAIN storage.categories
              ELSE /\ c \in DOMAIN storage.categories
                   /\ storage.categories[c] = rest

\* C4: save with an id that is a key of tasks sets, in that task, the
\* fields of the data to the data's values and leaves every other field of
\* the task and every other task as it was.
C4_SaveExistingMerges ==
    (SavedWithId /\ last.id \in TaskKeys(last.pre)) =>
        /\ \A id \in TaskKeys(last.pre) \ {last.id} :
              /\ id \in TaskKeys(storage)
              /\ storage.tasks[id] = last.pre.tasks[id]
        /\ last.id \in TaskKeys(storage)
        /\ LET old == last.pre.tasks[last.id]
               new == storage.tasks[last.id]
           IN /\ DOMAIN new = DOMAIN old \cup DOMAIN last.data
              /\ \A f \in DOMAIN last.data : new[f] = last.data[f]
              /\ \A f \in DOMAIN old \ DOMAIN last.data : new[f] = old[f]

\* An update that changed a field of one task, kept other fields of it,
\* and had another task beside it.
C4_Witness ==
    /\ SavedWithId /\ last.id \in TaskKeys(last.pre)
    /\ Cardinality(TaskKeys(last.pre)) > 1
    /\ \E f \in DOMAIN last.data :
          last.pre.tasks[last.id][f] # last.data[f]
    /\ DOMAIN last.pre.tasks[last.id] \ DOMAIN last.data # {}

\* C5: drop leaves the document the constructor creates,
\* {tasks: {}, categories: {}}, and yields it to the callback.
C5_DropYieldsEmptyDocument ==
    last.op = "drop" =>
        /\ storage = EmptyDocument
        /\ last.hasCallback => (last.called /\ last.arg = EmptyDocument)

\* C6: no operation throws, whatever the document and the arguments.
C6_NoOperationThrows == ~last.threw

\* C7: remove of an id that is no key of tasks leaves the stored document
\* as it was and does not invoke the callback.
C7_RemoveUnknownIsNoOp ==
    (last.op = "remove" /\ last.id \notin TaskKeys(last.pre)) =>
        /\ storage = last.pre
        /\ ~last.called

\* remove was called with a callback and an unknown id while tasks exist.
C7_Witness ==
    /\ last.op = "remove" /\ last.hasCallback
    /\ last.id # 0 /\ last.id \notin TaskKeys(last.pre)
    /\ TaskKeys(last.pre) # {}

C9_SaveRemoveRoundTrip ==
    roundTrip # NoRoundTrip => storage = roundTrip.base

\* C10: find with a callback yields exactly the stored tasks t with
\* t[k] === query[k] for every key k of query; without a callback it does
\* nothing.
C10_FindYieldsMatches ==
    last.op = "find" =>
        IF last.hasCallback
        THEN /\ last.called
             /\ HasTasks(last.pre)
             /\ Range(last.arg) =
                   { t \in { last.pre.tasks[id] : id \in TaskKeys(last.pre) } :
                        \A k \in DOMAIN last.data :
                            k \in DOMAIN t /\ t[k] = last.data[k] }
        ELSE ~last.called /\ ~last.threw /\ storage = last.pre

\* The last call was one of the read operations.
ReadCall ==
    last.op \in {"find", "findAll", "findCategoriesAll", "findCategories"}

\* The number of places in the category lists of a document that hold id.
RECURSIVE Occurrences(_, _, _)
Occurrences(categories, keys, id) ==
    IF keys = {} THEN 0
    ELSE LET k == CHOOSE x \in keys : TRUE
         IN Cardinality({ i \in 1 .. Len(categories[k]) :
                             categories[k][i] = id })
            + Occurrences(categories, keys \ {k}, id)

\* C11: findCategories with a callback yields, for every category key, the
\* task records of the category's ids, in order, restricted to the tasks t
\* with t[k] === query[k] for every key k of query.
C11_FindCategoriesFilters ==
    (last.op = "findCategories" /\ last.hasCallback) =>
        /\ last.called
        /\ DOMAIN last.arg = DOMAIN last.pre.categories
        /\ \A c \in DOMAIN last.pre.categories :
              LET ids == last.pre.categories[c]
                  Wanted(id) ==
                      /\ id \in TaskKeys(last.pre)
                      /\ \A k \in DOMAIN last.data :
                            /\ k \in DOMAIN last.pre.tasks[id]
                            /\ last.pre.tasks[id][k] = last.data[k]
                  kept == SelectSeq(ids, Wanted)
              IN last.arg[c] = [i \in 1 .. Len(kept) |-> last.pre.tasks[kept[i]]]

\* C12: findCategoriesAll with a callback yields a mapping with the keys of
\* categories whose lists have the length and order of the id lists, the
\* i-th element being the task stored under the i-th id, never undefined.
C12_FindCategoriesAllYieldsTasks ==
    (last.op = "findCategoriesAll" /\ last.hasCallback) =>
        /\ last.called
        /\ DOMAIN last.arg = DOMAIN last.pre.categories
        /\ \A c \in DOMAIN last.pre.categories :
              /\ Len(last.arg[c]) = Len(last.pre.categories[c])
              /\ \A i \in 1 .. Len(last.arg[c]) :
                    /\ last.arg[c][i] # Undefined
                    /\ last.pre.categories[c][i] \in TaskKeys(last.pre)
                    /\ last.arg[c][i] =
                          last.pre.tasks[last.pre.categories[c][i]]

\* C14: constructing a Store writes {tasks: {}, categories: {}} only when
\* no document is stored under the name, leaves a stored document as it is,
\* and yields the stored document to the callback.
C14_ConstructCreatesOnlyIfAbsent ==
    last.op = "Store" =>
        /\ storage = IF last.pre = NoItem THEN EmptyDocument ELSE last.pre
        /\ last.hasCallback => (last.called /\ last.arg = storage)

\* A Store was constructed with a callback on a name whose document holds
\* a task.
C14_Witness ==
    /\ last.op = "Store" /\ last.hasCallback
    /\ TaskKeys(last.pre) # {}

C18_UniqueMembership ==
    \A id \in TaskKeys(storage) :
        Occurrences(storage.categories, DOMAIN storage.categories, id) = 1

\* C20: find, findAll, findCategoriesAll and findCategories leave the stored
\* document as it was.
C20_ReadsKeepDocument == ReadCall => storage = last.pre

\* findCategoriesAll replaced the ids of a non-empty index by task records
\* in what it yielded.
C20_Witness ==
    /\ last.op = "findCategoriesAll" /\ last.called
    /\ \E c \in DOMAIN last.pre.categories :
          /\ Len(last.pre.categories[c]) > 0
          /\ last.pre.categories[c][1] \in TaskKeys(last.pre)
          /\ last.arg[c][1] = last.pre.tasks[last.pre.categories[c][1]]

\* The last call was one of the operations that write the document.
WriteCall == last.op \in {"save", "remove", "drop"}

\* C13: save, remove and drop invoke their callback at most once, and when
\* they do the changed document is already in localStorage, so that a find
\* or findAll issued from inside the callback reads what the call leaves.
C13_PersistBeforeCallback ==
    WriteCall =>
        /\ last.calls <= 1
        /\ last.calls = 1 =>
              /\ last.seen = storage
              /\ \A query \in Queries :
                    find(last.seen, query, TRUE) = find(storage, query, TRUE)

\* save, remove or drop changed the document and invoked the callback.
C13_Witness ==
    /\ WriteCall /\ last.calls = 1
    /\ storage # last.pre

\* Every task stored under key k has the id k.
KeyIdAgreement ==
    \A k \in TaskKeys(storage) : storage.tasks[k].id = k

\* The last call was save with an id and data whose id field is another id.
IdOverwritten ==
    /\ SavedWithId
    /\ "id" \in DOMAIN last.data
    /\ last.data.id # last.id

\* C19 as stated: after any saves and removes every task stored under key k
\* has the id k.
C19_KeyIdAgreement == KeyIdAgreement

\* C19 amended: every call keeps the agreement of keys and ids, except save
\* with an id and data whose id field differs from that id; so the
\* agreement holds after any saves and removes without such a save.
C19_KeyIdAgreementKept ==
    [][(KeyIdAgreement /\ ~IdOverwritten') => KeyIdAgreement']_vars

\* A task was updated by save with an id, with data that leaves its id
\* alone, next to another task, and keys and ids agree.
C19_Witness ==
    /\ SavedWithId /\ last.id \in TaskKeys(last.pre)
    /\ ~IdOverwritten
    /\ storage # last.pre
    /\ Cardinality(TaskKeys(storage)) > 1
    /\ KeyIdAgreement

\* show returned.
Shown == rendered.op = "show" /\ rendered.done

\* Piece i of the text begins an HTML entity.
IsEntity(text, i) ==
    /\ i < Len(text)
    /\ \E chr \in DOMAIN htmlEscapes :
          htmlEscapes[chr] = <<text[i], text[i + 1]>>

IsMarkup(piece) == piece \in DOMAIN htmlEscapes

\* The characters & < > " ' ` of a text that are not part of an entity.
RawMarkup(text) ==
    SelectSeq([i \in DOMAIN text |->
                 IF IsEntity(text, i) THEN "entity" ELSE text[i]],
              IsMarkup)

\* The text n times in a row.
RECURSIVE Repeat(_, _)
Repeat(text, n) == IF n = 0 THEN <<>> ELSE text \o Repeat(text, n - 1)

\* The text is part of the other text.
Within(text, other) ==
    \E i \in 0 .. (Len(other) - Len(text)) :
       SubSeq(other, i + 1, i + Len(text)) = text

\* C15: show never emits a raw & < > " ' or ` that comes from a title or a
\* category: the raw characters of its output are those of the wrapper and
\* of one item template for each task, in that order.
C15_ShowEmitsNoRawMarkup ==
    Shown =>
       RawMarkup(rendered.html) =
          SubSeq(RawMarkup(templateWrapper), 1, 4)
          \o Repeat(RawMarkup(defaultTemplate), Len(rendered.data))
          \o SubSeq(RawMarkup(templateWrapper), 5, 6)

\* A task with < in its title and & in its category was shown with its
\* category, and both entities are in the output.
C15_Witness ==
    /\ Shown /\ rendered.showCategory
    /\ \E i \in DOMAIN rendered.data :
          /\ Within(<<"<">>, rendered.data[i].title)
          /\ Within(<<"&">>, rendered.data[i].category)
    /\ Within(<<"&", "lt;">>, rendered.html)
    /\ Within(<<"&", "amp;">>, rendered.html)

\* itemCounter returned.
Counted == rendered.op = "itemCounter" /\ rendered.done

\* C16: itemCounter(n) is "<strong>n</strong> item left" exactly when n = 1,
\* and "<strong>n</strong> items left" for every other n, 0 included.
C16_ItemCounterPlural ==
    Counted =>
       LET n == ToString(rendered.activeTodos)
       IN /\ rendered.html = "<strong>" \o n \o "</strong> item left"
             <=> rendered.activeTodos = 1
          /\ rendered.html = "<strong>" \o n \o "</strong> items left"
             <=> rendered.activeTodos # 1

\* The counter of no item was built, and says items.
C16_Witness ==
    /\ Counted /\ rendered.activeTodos = 0
    /\ rendered.html = "<strong>0</strong> items left"

====
